---- MODULE Spec2Model ----
(***************************************************************************)
(* Model of generate_fieldwork_cost_xlsx.py: the script that builds the    *)
(* field-trip cost workbook (six sheets, eight defined names, formula      *)
(* cells), followed by the end user filling the input cells of the saved   *)
(* workbook.  Formulas are kept as syntax trees, exactly as the script     *)
(* writes them, and are evaluated with the spreadsheet's semantics.        *)
(*                                                                         *)
(* Numbers are fixed-point: an integer n stands for n / Scale, so that the *)
(* default per-km rate 0.35 is 35.  Every product of the workbook has a    *)
(* whole-number factor (a count of days, nights, cars, km, hours, tickets  *)
(* or units), which keeps the fixed-point product exact.                   *)
(***************************************************************************)
EXTENDS Integers, Sequences, FiniteSets, TLC

VARIABLES pc, variant, defined_names, raised, cells, current_row, nm_idx, last_target,
          extra_calls

vars == <<pc, variant, defined_names, raised, cells, current_row, nm_idx, last_target,
         extra_calls>>

(***************************************************************************)
(* Bounds of the model: the script's row ranges, scaled down.              *)
(***************************************************************************)
\* participant rows: rows 2..300 in the script
StaffRows == 2
\* Hours Log rows read by SUMIFS: rows 2..1000 in the script
HoursRows == 2
\* travel rows: rows 2..500 in the script
TravelRows == 1
\* material rows: rows 2..400 in the script
OtherRows == 1
\* number of add_defined_name calls made on top of the eight of the build
MaxRedefine == 2

\* fixed-point scale: two decimals
Scale == 100

StaffLast == 1 + StaffRows
HoursLast == 1 + HoursRows
TravelLast == 1 + TravelRows
OtherLast == 1 + OtherRows
\* tot_row = 302 for rows 2..300; the SUM runs to the row above it
tot_row == StaffLast + 2
t_tot == TravelLast + 2
o_tot == OtherLast + 2

(***************************************************************************)
(* Cell values.                                                            *)
(***************************************************************************)
Num(n) == [t |-> "num", n |-> n, s |-> ""]
Str(s) == [t |-> "str", n |-> 0, s |-> s]
Bool(b) == [t |-> "bool", n |-> IF b THEN 1 ELSE 0, s |-> ""]
Blank == [t |-> "blank", n |-> 0, s |-> ""]
Err == [t |-> "err", n |-> 0, s |-> ""]

\* a whole number (a count, or an amount in whole EUR)
Whole(k) == Num(k * Scale)

\* cell contents: an entered value or a formula
Val(v) == [kind |-> "val", v |-> v]
Fml(f) == [kind |-> "fml", f |-> f]

(***************************************************************************)
(* Sheet titles.                                                           *)
(***************************************************************************)
RatesT == "Inputs & Rates"
StaffT == "Staff & Participants"
HoursT == "Hours Log"
TravelT == "Travel & Vehicles"
OtherT == "Material Expenses"
SummaryT == "Summary"

\* " " in sheet_title
HasSpace(title) == title \in {RatesT, StaffT, HoursT, TravelT, OtherT}

(***************************************************************************)
(* Formula syntax trees.                                                   *)
(***************************************************************************)
FNum(n) == [op |-> "num", v |-> n]
FStr(s) == [op |-> "str", s |-> s]
FRef(col, row) == [op |-> "ref", local |-> TRUE, sheet |-> "", col |-> col, row |-> row]
FXRef(sheet, col, row) == [op |-> "ref", local |-> FALSE, sheet |-> sheet, col |-> col, row |-> row]
FName(nm) == [op |-> "name", name |-> nm]
FMul(a, b) == [op |-> "mul", a |-> a, b |-> b]
FAdd(a, b) == [op |-> "add", a |-> a, b |-> b]
FGt(a, b) == [op |-> "gt", a |-> a, b |-> b]
FEq(a, b) == [op |-> "eq", a |-> a, b |-> b]
FIf(c, a, b) == [op |-> "if", c |-> c, a |-> a, b |-> b]
FIfError(a, b) == [op |-> "iferror", a |-> a, b |-> b]
FRange(sheet, col, r1, r2) == [sheet |-> sheet, col |-> col, r1 |-> r1, r2 |-> r2]
FSum(col, r1, r2) == [op |-> "sum", rng |-> FRange("", col, r1, r2)]
FSumIfs(sum, cr1, c1, cr2, c2) ==
    [op |-> "sumifs", sum |-> sum, cr1 |-> cr1, c1 |-> c1, cr2 |-> cr2, c2 |-> c2]

(***************************************************************************)
(* Spreadsheet semantics of the operators and functions the script uses.   *)
(***************************************************************************)
\* text comparison in =, SUMIFS criteria: case-insensitive
LowerTable ==
    [s \in {"Ann", "Lee", "Fox", "WiMi", "Lab (VA)", "Hiwi (student assistant)",
            "Student (unpaid)"} |->
        CASE s = "Ann" -> "ann"
          [] s = "Lee" -> "lee"
          [] s = "Fox" -> "fox"
          [] s = "WiMi" -> "wimi"
          [] s = "Lab (VA)" -> "lab (va)"
          [] s = "Hiwi (student assistant)" -> "hiwi (student assistant)"
          [] s = "Student (unpaid)" -> "student (unpaid)"]

Lower(s) == IF s \in DOMAIN LowerTable THEN LowerTable[s] ELSE s

\* operand of * and +: blank is 0, TRUE is 1, text that is no number is #VALUE!
Coerce(v) ==
    CASE v.t = "num" -> v
      [] v.t = "blank" -> Num(0)
      [] v.t = "bool" -> Num(v.n * Scale)
      [] OTHER -> Err

XlMul(a, b) ==
    LET x == Coerce(a)
        y == Coerce(b)
    IN  IF x.t = "err" \/ y.t = "err" THEN Err ELSE Num((x.n * y.n) \div Scale)

XlAdd(a, b) ==
    LET x == Coerce(a)
        y == Coerce(b)
    IN  IF x.t = "err" \/ y.t = "err" THEN Err ELSE Num(x.n + y.n)

\* a > b for a number b: numbers sort before text, text before booleans
XlGt(a, b) ==
    CASE a.t = "err" \/ b.t = "err" -> Err
      [] a.t \in {"str", "bool"} -> Bool(TRUE)
      [] OTHER -> Bool(a.n > b.n)

\* a = b for a text b
XlEq(a, b) ==
    CASE a.t = "err" \/ b.t = "err" -> Err
      [] a.t = "str" -> Bool(Lower(a.s) = Lower(b.s))
      [] a.t = "blank" -> Bool(b.s = "")
      [] OTHER -> Bool(FALSE)

XlIf(c, a, b) ==
    CASE c.t = "err" \/ c.t = "str" -> Err
      [] c.n # 0 -> a
      [] OTHER -> b

XlIfError(a, b) == IF a.t = "err" THEN b ELSE a

\* one SUMIFS criterion against one cell of its criteria range; a criterion that
\* refers to an empty cell counts as 0
XlMatches(cell, crit) ==
    CASE crit.t = "str" -> cell.t = "str" /\ Lower(cell.s) = Lower(crit.s)
      [] crit.t = "num" -> cell.t = "num" /\ cell.n = crit.n
      [] crit.t = "blank" -> cell.t = "num" /\ cell.n = 0
      [] OTHER -> FALSE

\* SUM and SUMIFS add the numbers of a range, skip text and blanks, and return
\* an error found among the cells they add
XlAcc(acc, v) ==
    CASE acc.t = "err" \/ v.t = "err" -> Err
      [] v.t = "num" -> Num(acc.n + v.n)
      [] OTHER -> acc

(***************************************************************************)
(* Defined names: the container of the installed openpyxl is list-like     *)
(* (delete, append) or dict-like (in, del, item assignment).               *)
(***************************************************************************)
Target(sheet_title, a1_ref) ==
    [quoted |-> HasSpace(sheet_title), sheet |-> sheet_title, ref |-> a1_ref]

A1(col, row) == [col |-> col, row |-> row]

DefinedName(name, target) == [name |-> name, attr_text |-> target]

NameIdx(names, name) == {i \in 1..Len(names) : names[i].name = name}

\* list container: delete(name) drops the first definition of that name
\* dict container: del defined_names[name]
Without(names, name) ==
    IF NameIdx(names, name) = {} THEN names
    ELSE LET i == CHOOSE j \in NameIdx(names, name) : \A k \in NameIdx(names, name) : j <= k
         IN  SubSeq(names, 1, i - 1) \o SubSeq(names, i + 1, Len(names))

\* list container: append raises ValueError on a name it already holds
AppendRaises(kind, names, name) == kind = "list" /\ NameIdx(names, name) # {}

\* list container: append; dict container: defined_names[name] = dn
Put(kind, names, dn) ==
    IF kind = "dict" /\ NameIdx(names, dn.name) # {}
    THEN [i \in 1..Len(names) |-> IF names[i].name = dn.name THEN dn ELSE names[i]]
    ELSE Append(names, dn)

\* the old definition left in place
DeleteOld_Skipped(names, name) == names

\* the removal of the old definition of `name`, ahead of the new one
DeleteOld(names, name) == Without(names, name)

add_defined_name(kind, names, sheet_title, name, a1_ref) ==
    LET cleared == DeleteOld(names, name)
        dn == DefinedName(name, Target(sheet_title, a1_ref))
    IN  IF AppendRaises(kind, cleared, name)
        THEN [names |-> cleared, raised |-> TRUE]
        ELSE [names |-> Put(kind, cleared, dn), raised |-> FALSE]

(***************************************************************************)
(* Evaluation of a cell of the workbook.                                   *)
(***************************************************************************)
CellAt(c, sheet, col, row) ==
    IF <<sheet, col, row>> \in DOMAIN c THEN c[<<sheet, col, row>>] ELSE Val(Blank)

RECURSIVE Eval(_, _, _)
RECURSIVE ValueIn(_, _, _, _)
RECURSIVE XlSum(_, _, _, _, _)
RECURSIVE XlSumIfs(_, _, _, _, _, _, _, _)

\* SUM(range), from its last row down to its first
XlSum(c, sheet, rng, row, acc) ==
    IF row < rng.r1 THEN acc
    ELSE XlSum(c, sheet, rng, row - 1, XlAcc(acc, ValueIn(c, sheet, rng.col, row)))

\* SUMIFS(sum, cr1, c1, cr2, c2): row i of the sum range is added when row i of
\* both criteria ranges matches
XlSumIfs(c, sum, cr1, c1, cr2, c2, i, acc) ==
    IF sum.r1 + i > sum.r2 THEN acc
    ELSE LET hit == /\ XlMatches(ValueIn(c, cr1.sheet, cr1.col, cr1.r1 + i), c1)
                    /\ XlMatches(ValueIn(c, cr2.sheet, cr2.col, cr2.r1 + i), c2)
             v == ValueIn(c, sum.sheet, sum.col, sum.r1 + i)
         IN  XlSumIfs(c, sum, cr1, c1, cr2, c2, i + 1, IF hit THEN XlAcc(acc, v) ELSE acc)

\* a defined name stands for the cell it points to; an unknown name is #NAME?
NameValue(c, nm) ==
    IF NameIdx(defined_names, nm) = {} THEN Err
    ELSE LET d == defined_names[CHOOSE i \in NameIdx(defined_names, nm) : TRUE].attr_text
         IN  ValueIn(c, d.sheet, d.ref.col, d.ref.row)

\* the value of formula f of a cell of `sheet`, in the workbook with cells c
Eval(c, sheet, f) ==
    CASE f.op = "num" -> Whole(f.v)
      [] f.op = "str" -> Str(f.s)
      [] f.op = "ref" -> ValueIn(c, IF f.local THEN sheet ELSE f.sheet, f.col, f.row)
      [] f.op = "name" -> NameValue(c, f.name)
      [] f.op = "mul" -> XlMul(Eval(c, sheet, f.a), Eval(c, sheet, f.b))
      [] f.op = "add" -> XlAdd(Eval(c, sheet, f.a), Eval(c, sheet, f.b))
      [] f.op = "gt" -> XlGt(Eval(c, sheet, f.a), Eval(c, sheet, f.b))
      [] f.op = "eq" -> XlEq(Eval(c, sheet, f.a), Eval(c, sheet, f.b))
      [] f.op = "if" -> XlIf(Eval(c, sheet, f.c), Eval(c, sheet, f.a), Eval(c, sheet, f.b))
      [] f.op = "iferror" -> XlIfError(Eval(c, sheet, f.a), Eval(c, sheet, f.b))
      [] f.op = "sum" -> XlSum(c, sheet, f.rng, f.rng.r2, Num(0))
      [] f.op = "sumifs" ->
            XlSumIfs(c, f.sum, f.cr1, Eval(c, sheet, f.c1), f.cr2, Eval(c, sheet, f.c2),
                     0, Num(0))

ValueIn(c, sheet, col, row) ==
    LET x == CellAt(c, sheet, col, row)
    IN  IF x.kind = "fml" THEN Eval(c, sheet, x.f) ELSE x.v

\* the value the opened workbook shows in a cell
ValueOf(sheet, col, row) == ValueIn(cells, sheet, col, row)

(***************************************************************************)
(* Worksheet writes: ws.append(row) and ws.cell(row, column).value = ...   *)
(***************************************************************************)
Max(a, b) == IF a >= b THEN a ELSE b

Book == [cells |-> cells, cur |-> current_row]

create_sheet(w, title) == [w EXCEPT !.cur = (title :> 0) @@ w.cur]

AppendRow(w, sheet, row) ==
    LET r == w.cur[sheet] + 1
    IN  [cells |-> [k \in {<<sheet, c, r>> : c \in 1..Len(row)} |-> Val(row[k[2]])] @@ w.cells,
         cur |-> [w.cur EXCEPT ![sheet] = r]]

SetCell(w, sheet, col, row, content) ==
    [cells |-> (<<sheet, col, row>> :> content) @@ w.cells,
     cur |-> [w.cur EXCEPT ![sheet] = Max(@, row)]]

\* the cells rowCells[r] written to every row r of first..last
FillRows(w, sheet, first, last, rowCells) ==
    LET keys == {<<sheet, c, r>> : c \in DOMAIN rowCells[first], r \in first..last}
    IN  [cells |-> [k \in keys |-> rowCells[k[3]][k[2]]] @@ w.cells,
         cur |-> [w.cur EXCEPT ![sheet] = Max(@, last)]]

(***************************************************************************)
(* Sheet: Inputs & Rates.                                                  *)
(***************************************************************************)
\* label and value of each rate; the notes of column C are left out
rate_rows ==
    << <<Str("Per diem - full day (domestic)"), Whole(24)>>,
       <<Str("Stadtmobil base rate"), Whole(150)>>,
       <<Str("Number of Stadtmobil cars"), Whole(1)>>,
       <<Str("Total trip kilometers"), Whole(100)>>,
       <<Str("Stadtmobil per-km cost (incl. fuel)"), Num(35)>>,
       <<Str("Alternative - Stadtmobil lump sum"), Whole(0)>>,
       <<Str("Default overnight cost per night"), Whole(95)>>,
       <<Str("Hiwi hourly rate (default)"), Whole(20)>> >>

RECURSIVE AppendRows(_, _, _, _)
AppendRows(w, sheet, rows, i) ==
    IF i > Len(rows) THEN w ELSE AppendRows(AppendRow(w, sheet, rows[i]), sheet, rows, i + 1)

\* the names and the cells of column B they are given, in the order of the loop
named_ranges ==
    << <<"PER_DIEM", A1(2, 2)>>,
       <<"STADTMOBIL_BASE", A1(2, 3)>>,
       <<"STADTMOBIL_CAR_NUMBER", A1(2, 4)>>,
       <<"TOTAL_KM", A1(2, 5)>>,
       <<"STADTMOBIL_PER_KM", A1(2, 6)>>,
       <<"STADTMOBIL_LUMPSUM", A1(2, 7)>>,
       <<"OVERNIGHT_DEFAULT", A1(2, 8)>>,
       <<"HIWI_RATE", A1(2, 9)>> >>

(***************************************************************************)
(* Sheet: Staff & Participants.                                            *)
(***************************************************************************)
staff_headers ==
    << Str("First name"), Str("Last name"),
       Str("Role (WiMi/VA/Hiwi/Unpaid graduating student)"),
       Str("Trip start (date/time)"), Str("Trip end (date/time)"),
       Str("Full-day count"), Str("Partial-day count (>8h or arr/dep)"),
       Str("Per-diem total (EUR)"),
       Str("Nights"), Str("Overnight cost per night (EUR)"), Str("Overnight total (EUR)"),
       Str("Hours (from Hours Log)"), Str("Hourly rate (EUR)"), Str("Wages total (EUR)"),
       Str("Participant subtotal (EUR)") >>

\* the per-diem paid to every role
PerDiemFormula_AnyRole(row) ==
    FIfError(FAdd(FMul(FRef(6, row), FName("PER_DIEM")),
                  FMul(FRef(7, row), FName("PER_DIEM"))),
             FNum(0))

\* =IF(C{row}="Student (unpaid)",0,IFERROR(F{row}*PER_DIEM + G{row}*PER_DIEM,0))
PerDiemFormula(row) ==
    FIf(FEq(FRef(3, row), FStr("Student (unpaid)")),
        FNum(0),
        FIfError(FAdd(FMul(FRef(6, row), FName("PER_DIEM")),
                      FMul(FRef(7, row), FName("PER_DIEM"))),
                 FNum(0)))

\* =OVERNIGHT_DEFAULT
OvernightRateFormula(row) == FName("OVERNIGHT_DEFAULT")

\* =IFERROR(I{row}*J{row},0)
OvernightTotalFormula(row) == FIfError(FMul(FRef(9, row), FRef(10, row)), FNum(0))

\* =IFERROR(SUMIFS('Hours Log'!$F$2:$F$1000,'Hours Log'!$B$2:$B$1000,A{row},
\*                 'Hours Log'!$C$2:$C$1000,B{row}),0)
HoursFormula(row) ==
    FIfError(FSumIfs(FRange(HoursT, 6, 2, HoursLast),
                     FRange(HoursT, 2, 2, HoursLast), FRef(1, row),
                     FRange(HoursT, 3, 2, HoursLast), FRef(2, row)),
             FNum(0))

\* the hourly rate given to every role
HourlyRateFormula_AnyRole(row) == FName("HIWI_RATE")

\* =IF(C{row}="Hiwi (student assistant)",HIWI_RATE,0)
HourlyRateFormula(row) ==
    FIf(FEq(FRef(3, row), FStr("Hiwi (student assistant)")), FName("HIWI_RATE"), FNum(0))

\* =IFERROR(L{row}*M{row},0)
WageFormula(row) == FIfError(FMul(FRef(12, row), FRef(13, row)), FNum(0))

\* =H{row}+K{row}+O{row}
SubtotalFormula(row) == FAdd(FAdd(FRef(8, row), FRef(11, row)), FRef(15, row))

\* the columns the loop over the participant rows writes
StaffRowCells(row) ==
    (8 :> Fml(PerDiemFormula(row))) @@
    (10 :> Fml(OvernightRateFormula(row))) @@
    (11 :> Fml(OvernightTotalFormula(row))) @@
    (12 :> Fml(HoursFormula(row))) @@
    (13 :> Fml(HourlyRateFormula(row))) @@
    (15 :> Fml(WageFormula(row))) @@
    (16 :> Fml(SubtotalFormula(row)))

\* for c in (8,11,12,15,16): =SUM({c}2:{c}301)
StaffTotalsCells(row) ==
    (7 :> Val(Str("Totals:"))) @@
    [c \in {8, 11, 12, 15, 16} |-> Fml(FSum(c, 2, tot_row - 1))]

(***************************************************************************)
(* Sheet: Hours Log.                                                       *)
(***************************************************************************)
hours_headers ==
    << Str("Date"), Str("Task/Activity"), Str("First name"), Str("Last name"),
       Str("Role (opt.)"), Str("Hours") >>

(***************************************************************************)
(* Sheet: Travel & Vehicles.                                               *)
(***************************************************************************)
travel_headers ==
    << Str("Date"), Str("Type (Train/Flight/Rental/Private/Taxi/PT)"),
       Str("Route / Purpose / Notes"),
       Str("Ticket/Day rate (EUR)"), Str("Qty (days / tickets)"), Str("Line item (EUR)"),
       Str("Rental km (estimate)"), Str("Rental per-km (EUR)"), Str("Rental variable (EUR)"),
       Str("Private-car km"), Str("Private-car reimb. (EUR)"), Str("Travel subtotal (EUR)") >>

\* =IFERROR(D{row}*E{row},0)
TravelLineFormula(row) == FIfError(FMul(FRef(4, row), FRef(5, row)), FNum(0))

\* the rental line the column header announces: rental km x per-km rate
RentalVariableFormula_PerKm(row) ==
    FIfError(FMul(FRef(7, row), FName("STADTMOBIL_PER_KM")), FNum(0))

\* =0
RentalVariableFormula(row) == FNum(0)

\* =0
PrivateCarFormula(row) == FNum(0)

\* =F{row}+I{row}+K{row}
TravelSubtotalFormula(row) == FAdd(FAdd(FRef(6, row), FRef(9, row)), FRef(11, row))

TravelRowCells(row) ==
    (6 :> Fml(TravelLineFormula(row))) @@
    (8 :> Val(Str(""))) @@
    (9 :> Fml(RentalVariableFormula(row))) @@
    (11 :> Fml(PrivateCarFormula(row))) @@
    (12 :> Fml(TravelSubtotalFormula(row)))

\* for c in (6,9,11,12): =SUM({c}2:{c}501)
TravelTotalsCells(row) ==
    (3 :> Val(Str("Totals:"))) @@
    [c \in {6, 9, 11, 12} |-> Fml(FSum(c, 2, t_tot - 1))]

(***************************************************************************)
(* Sheet: Material Expenses.                                               *)
(***************************************************************************)
other_headers ==
    << Str("Date"), Str("Item / Description"),
       Str("Category (consumables/equipment/shipping/permits/other)"),
       Str("Units"), Str("Unit cost (EUR)"), Str("Line total (EUR)"), Str("Notes") >>

\* =IFERROR(D{row}*E{row},0)
OtherLineFormula(row) == FIfError(FMul(FRef(4, row), FRef(5, row)), FNum(0))

OtherRowCells(row) == (6 :> Fml(OtherLineFormula(row)))

\* =SUM(F2:F401)
OtherTotalsCells(row) ==
    (3 :> Val(Str("Totals:"))) @@ (6 :> Fml(FSum(6, 2, o_tot - 1)))

(***************************************************************************)
(* Sheet: Summary.                                                         *)
(***************************************************************************)
\* the shared-vehicle formula with the distance term forgotten
StadtmobilFormula_NoKm ==
    FIf(FGt(FName("STADTMOBIL_LUMPSUM"), FNum(0)),
        FName("STADTMOBIL_LUMPSUM"),
        FMul(FName("STADTMOBIL_CAR_NUMBER"), FName("STADTMOBIL_BASE")))

\* =IF(STADTMOBIL_LUMPSUM>0, STADTMOBIL_LUMPSUM,
\*     STADTMOBIL_CAR_NUMBER*STADTMOBIL_BASE + TOTAL_KM*STADTMOBIL_PER_KM)
StadtmobilFormula ==
    FIf(FGt(FName("STADTMOBIL_LUMPSUM"), FNum(0)),
        FName("STADTMOBIL_LUMPSUM"),
        FAdd(FMul(FName("STADTMOBIL_CAR_NUMBER"), FName("STADTMOBIL_BASE")),
             FMul(FName("TOTAL_KM"), FName("STADTMOBIL_PER_KM"))))

\* a grand total whose range stops one row short
GrandTotalFormula_Short == FSum(2, 4, 8)

\* =SUM(B4:B9)
GrandTotalFormula == FSum(2, 4, 9)

\* the rows appended below the title: a spacer, the header, the six categories,
\* the grand total, a spacer and the notes; a formula string is a formula cell
\* (the texts of the notes column are left out)
summary_rows ==
    << <<Val(Str("")), Val(Str("")), Val(Str(""))>>,
       <<Val(Str("Category")), Val(Str("Subtotal (EUR)")), Val(Str("Notes"))>>,
       <<Val(Str("Per-diems (total)")),
         Fml(FIfError(FXRef(StaffT, 8, tot_row), FNum(0))), Val(Str(""))>>,
       <<Val(Str("Overnights")),
         Fml(FIfError(FXRef(StaffT, 11, tot_row), FNum(0))), Val(Str(""))>>,
       <<Val(Str("Hiwi wages")),
         Fml(FIfError(FXRef(StaffT, 15, tot_row), FNum(0))), Val(Str(""))>>,
       <<Val(Str("Tickets / day-rates (travel)")),
         Fml(FIfError(FXRef(TravelT, 6, t_tot), FNum(0))), Val(Str(""))>>,
       <<Val(Str("Stadtmobil (cars, base + km) or lump sum")),
         Fml(StadtmobilFormula), Val(Str(""))>>,
       <<Val(Str("Materials & other")),
         Fml(FIfError(FXRef(OtherT, 6, o_tot), FNum(0))), Val(Str(""))>>,
       <<Val(Str("Grand total (EUR)")), Fml(GrandTotalFormula), Val(Str(""))>>,
       <<Val(Str("")), Val(Str("")), Val(Str(""))>>,
       <<Val(Str("Notes")), Val(Str("")), Val(Str(""))>> >>

\* ws.append of a row that may hold formula strings
AppendCells(w, sheet, row) ==
    LET r == w.cur[sheet] + 1
    IN  [cells |-> [k \in {<<sheet, c, r>> : c \in 1..Len(row)} |-> row[k[2]]] @@ w.cells,
         cur |-> [w.cur EXCEPT ![sheet] = r]]

RECURSIVE AppendAll(_, _, _, _)
AppendAll(w, sheet, rows, i) ==
    IF i > Len(rows) THEN w ELSE AppendAll(AppendCells(w, sheet, rows[i]), sheet, rows, i + 1)

(***************************************************************************)
(* The build: the script from Workbook() to wb.save().                     *)
(***************************************************************************)
Init ==
    /\ pc = "rates"
    /\ variant \in {"list", "dict"}
    /\ defined_names = <<>>
    /\ raised = FALSE
    /\ cells = <<>>
    /\ current_row = ("Sheet" :> 0)
    /\ nm_idx = 1
    /\ last_target = <<>>
    /\ extra_calls = 0

\* one call of add_defined_name on the workbook; an exception ends the script
CallAddDefinedName(sheet_title, name, a1_ref, next_pc) ==
    LET r == add_defined_name(variant, defined_names, sheet_title, name, a1_ref)
    IN  /\ defined_names' = r.names
        /\ raised' = r.raised
        /\ pc' = IF r.raised THEN "aborted" ELSE next_pc
        /\ last_target' = (name :> Target(sheet_title, a1_ref)) @@ last_target

BuildRates ==
    /\ pc = "rates"
    /\ LET w0 == [cells |-> cells, cur |-> (RatesT :> current_row["Sheet"])]
           w1 == AppendRow(w0, RatesT, <<Str("Item"), Str("Value (EUR)"), Str("Notes")>>)
           w2 == AppendRows(w1, RatesT, rate_rows, 1)
       IN  cells' = w2.cells /\ current_row' = w2.cur
    /\ pc' = "names"
    /\ UNCHANGED <<variant, defined_names, raised, nm_idx, last_target, extra_calls>>

DefineName ==
    /\ pc = "names"
    /\ CallAddDefinedName(RatesT, named_ranges[nm_idx][1], named_ranges[nm_idx][2],
                          IF nm_idx = Len(named_ranges) THEN "staff" ELSE "names")
    /\ nm_idx' = nm_idx + 1
    /\ UNCHANGED <<variant, cells, current_row, extra_calls>>

BuildStaff ==
    /\ pc = "staff"
    /\ LET w0 == create_sheet(Book, StaffT)
           w1 == AppendRow(w0, StaffT, staff_headers)
           w2 == FillRows(w1, StaffT, 2, StaffLast, [r \in 2..StaffLast |-> StaffRowCells(r)])
           w3 == FillRows(w2, StaffT, tot_row, tot_row, [r \in tot_row..tot_row |-> StaffTotalsCells(r)])
       IN  cells' = w3.cells /\ current_row' = w3.cur
    /\ pc' = "hours"
    /\ UNCHANGED <<variant, defined_names, raised, nm_idx, last_target, extra_calls>>

BuildHours ==
    /\ pc = "hours"
    /\ LET w0 == create_sheet(Book, HoursT)
           w1 == AppendRow(w0, HoursT, hours_headers)
       IN  cells' = w1.cells /\ current_row' = w1.cur
    /\ pc' = "travel"
    /\ UNCHANGED <<variant, defined_names, raised, nm_idx, last_target, extra_calls>>

BuildTravel ==
    /\ pc = "travel"
    /\ LET w0 == create_sheet(Book, TravelT)
           w1 == AppendRow(w0, TravelT, travel_headers)
           w2 == FillRows(w1, TravelT, 2, TravelLast, [r \in 2..TravelLast |-> TravelRowCells(r)])
           w3 == FillRows(w2, TravelT, t_tot, t_tot, [r \in t_tot..t_tot |-> TravelTotalsCells(r)])
       IN  cells' = w3.cells /\ current_row' = w3.cur
    /\ pc' = "other"
    /\ UNCHANGED <<variant, defined_names, raised, nm_idx, last_target, extra_calls>>

BuildOther ==
    /\ pc = "other"
    /\ LET w0 == create_sheet(Book, OtherT)
           w1 == AppendRow(w0, OtherT, other_headers)
           w2 == FillRows(w1, OtherT, 2, OtherLast, [r \in 2..OtherLast |-> OtherRowCells(r)])
           w3 == FillRows(w2, OtherT, o_tot, o_tot, [r \in o_tot..o_tot |-> OtherTotalsCells(r)])
       IN  cells' = w3.cells /\ current_row' = w3.cur
    /\ pc' = "summary"
    /\ UNCHANGED <<variant, defined_names, raised, nm_idx, last_target, extra_calls>>

BuildSummary ==
    /\ pc = "summary"
    /\ LET w0 == create_sheet(Book, SummaryT)
           w1 == SetCell(w0, SummaryT, 1, 1, Val(Str("Field Trip Cost Summary")))
           w2 == AppendAll(w1, SummaryT, summary_rows, 1)
       IN  cells' = w2.cells /\ current_row' = w2.cur
    /\ pc' = "save"
    /\ UNCHANGED <<variant, defined_names, raised, nm_idx, last_target, extra_calls>>

Save ==
    /\ pc = "save"
    /\ pc' = "open"
    /\ UNCHANGED <<variant, defined_names, raised, cells, current_row, nm_idx, last_target,
                   extra_calls>>

Build ==
    \/ BuildRates
    \/ DefineName
    \/ BuildStaff
    \/ BuildHours
    \/ BuildTravel
    \/ BuildOther
    \/ BuildSummary
    \/ Save

(***************************************************************************)
(* The end user fills the input cells of the saved workbook.               *)
(***************************************************************************)
\* typing a value fills the cell, clearing it leaves the cell empty
Entered(sheet, row, rowCells) ==
    LET typed == {<<sheet, c, row>> : c \in {d \in DOMAIN rowCells : rowCells[d] # Blank}}
        cleared == {<<sheet, c, row>> : c \in {d \in DOMAIN rowCells : rowCells[d] = Blank}}
    IN  [k \in (DOMAIN cells \cup typed) \ cleared |->
            IF k \in typed THEN Val(rowCells[k[2]]) ELSE cells[k]]

UserFrame == UNCHANGED <<pc, variant, defined_names, raised, current_row, nm_idx, last_target,
                         extra_calls>>

\* column B of Inputs & Rates; R maps a row of the sheet to the values tried
SetRate(R) ==
    /\ pc = "open"
    /\ \E row \in DOMAIN R : \E v \in R[row] :
          cells' = Entered(RatesT, row, (2 :> v))
    /\ UserFrame

\* Staff & Participants: first name, last name, role, full days, partial days, nights
EnterStaff(S) ==
    /\ pc = "open"
    /\ \E row \in 2..StaffLast : \E e \in S :
          cells' = Entered(StaffT, row,
                           (1 :> e.first) @@ (2 :> e.last) @@ (3 :> e.role) @@
                           (6 :> e.full) @@ (7 :> e.partial) @@ (9 :> e.nights))
    /\ UserFrame

\* Hours Log: task, first name, last name, role, hours
EnterHours(S) ==
    /\ pc = "open"
    /\ \E row \in 2..HoursLast : \E e \in S :
          cells' = Entered(HoursT, row,
                           (2 :> e.task) @@ (3 :> e.first) @@ (4 :> e.last) @@
                           (5 :> e.role) @@ (6 :> e.hours))
    /\ UserFrame

\* Travel & Vehicles: ticket/day rate, quantity, rental km, private-car km
EnterTravel(S) ==
    /\ pc = "open"
    /\ \E row \in 2..TravelLast : \E e \in S :
          cells' = Entered(TravelT, row,
                           (4 :> e.rate) @@ (5 :> e.qty) @@ (7 :> e.rental_km) @@
                           (10 :> e.private_km))
    /\ UserFrame

\* Material Expenses: units, unit cost
EnterMaterial(S) ==
    /\ pc = "open"
    /\ \E row \in 2..OtherLast : \E e \in S :
          cells' = Entered(OtherT, row, (4 :> e.units) @@ (5 :> e.unit_cost))
    /\ UserFrame

(***************************************************************************)
(* Entries tried by the specifications.                                    *)
(***************************************************************************)
StaffEntry(first, last, role, full, partial, nights) ==
    [first |-> first, last |-> last, role |-> role, full |-> full, partial |-> partial,
     nights |-> nights]

HoursEntry(task, first, last, role, hours) ==
    [task |-> task, first |-> first, last |-> last, role |-> role, hours |-> hours]

TravelEntry(rate, qty, rental_km, private_km) ==
    [rate |-> rate, qty |-> qty, rental_km |-> rental_km, private_km |-> private_km]

MaterialEntry(units, unit_cost) == [units |-> units, unit_cost |-> unit_cost]

NoStaff == StaffEntry(Blank, Blank, Blank, Blank, Blank, Blank)
NoHours == HoursEntry(Blank, Blank, Blank, Blank, Blank)
NoTravel == TravelEntry(Blank, Blank, Blank, Blank)
NoMaterial == MaterialEntry(Blank, Blank)

\* the role dropdown of C2:C300
Roles == {"WiMi", "Lab (VA)", "Hiwi (student assistant)", "Student (unpaid)"}

\* the whole workbook, a few entries per sheet
SomeRates == (3 :> {Whole(150), Str("n/a")}) @@ (7 :> {Whole(0), Whole(500)})

SomeStaff ==
    { NoStaff,
      StaffEntry(Str("Ann"), Str("Lee"), Str("Hiwi (student assistant)"),
                 Whole(2), Whole(1), Whole(3)),
      StaffEntry(Str("Lee"), Str("Fox"), Str("Student (unpaid)"),
                 Whole(1), Blank, Whole(1)) }

SomeHours == { NoHours, HoursEntry(Str("Ann"), Str("Lee"), Str("Fox"), Blank, Whole(2)) }

SomeTravel == { NoTravel, TravelEntry(Whole(50), Whole(2), Whole(100), Whole(40)) }

SomeMaterial == { NoMaterial, MaterialEntry(Whole(3), Whole(10)) }

Next ==
    \/ Build
    \/ SetRate(SomeRates)
    \/ EnterStaff(SomeStaff)
    \/ EnterHours(SomeHours)
    \/ EnterTravel(SomeTravel)
    \/ EnterMaterial(SomeMaterial)

Spec == Init /\ [][Next]_vars

\* names and hours: every combination of a few names in both sheets
NameStaff ==
    { NoStaff } \cup
    { StaffEntry(Str(f), Str(l), Str("Hiwi (student assistant)"), Blank, Blank, Blank) :
        f \in {"Ann", "Lee"}, l \in {"Lee", "Fox"} }

NameHours ==
    { NoHours } \cup
    { HoursEntry(Str(t), Str(f), Str(l), Blank, Whole(2)) :
        t \in {"dig", "Ann"}, f \in {"Ann", "ann", "Lee"}, l \in {"Lee", "Fox"} }

NextHours ==
    \/ Build
    \/ EnterStaff(NameStaff)
    \/ EnterHours(NameHours)

SpecHours == Init /\ [][NextHours]_vars

\* per-diems: every role, two pairs of day counts, two per-diem rates
PerDiemRates == (2 :> {Whole(24), Whole(30)})

PerDiemStaff ==
    { NoStaff } \cup
    { StaffEntry(Str("Ann"), Str("Lee"), r, d[1], d[2], Blank) :
        r \in {Str(x) : x \in Roles} \cup {Blank},
        d \in {<<Whole(2), Whole(1)>>, <<Blank, Whole(3)>>} }

NextPerDiem ==
    \/ Build
    \/ SetRate(PerDiemRates)
    \/ EnterStaff(PerDiemStaff)

SpecPerDiem == Init /\ [][NextPerDiem]_vars

\* wages: every role, logged hours, two hourly rates
WageRates == (9 :> {Whole(20), Whole(25)})

WageStaff ==
    { NoStaff } \cup
    { StaffEntry(Str("Ann"), Str("Lee"), r, Blank, Blank, Blank) :
        r \in {Str(x) : x \in Roles} \cup {Blank} }

WageHours == { NoHours, HoursEntry(Str("Ann"), Str("Lee"), Blank, Blank, Whole(2)) }

NextWages ==
    \/ Build
    \/ SetRate(WageRates)
    \/ EnterStaff(WageStaff)
    \/ EnterHours(WageHours)

SpecWages == Init /\ [][NextWages]_vars

\* the shared vehicle: the five parameters of the Summary formula
VehicleRates ==
    (3 :> {Whole(150), Whole(200)}) @@
    (4 :> {Whole(1), Whole(2), Whole(3)}) @@
    (5 :> {Whole(100), Whole(250), Blank}) @@
    (6 :> {Num(35), Num(50)}) @@
    (7 :> {Whole(0), Blank, Whole(500), Whole(250)})

NextVehicle ==
    \/ Build
    \/ SetRate(VehicleRates)

SpecVehicle == Init /\ [][NextVehicle]_vars

\* defined names: calls of add_defined_name besides the eight of the build
Redefine ==
    /\ pc \notin {"rates", "aborted"}
    /\ extra_calls < MaxRedefine
    /\ \E name \in {"PER_DIEM", "HIWI_RATE", "TRIP_DAYS"} :
       \E sheet_title \in {RatesT, SummaryT} :
       \E a1_ref \in {A1(2, 2), A1(2, 9)} :
          CallAddDefinedName(sheet_title, name, a1_ref, pc)
    /\ extra_calls' = extra_calls + 1
    /\ UNCHANGED <<variant, cells, current_row, nm_idx>>

NextNames ==
    \/ Build
    \/ Redefine

SpecNames == Init /\ [][NextNames]_vars

(***************************************************************************)
(* Readings of the evaluated workbook.                                     *)
(***************************************************************************)
Opened == pc = "open"

StaffVal(col, row) == ValueOf(StaffT, col, row)
HoursVal(col, row) == ValueOf(HoursT, col, row)
TravelVal(col, row) == ValueOf(TravelT, col, row)
OtherVal(col, row) == ValueOf(OtherT, col, row)
RateVal(row) == ValueOf(RatesT, 2, row)
SummaryVal(row) == ValueOf(SummaryT, 2, row)

\* the value of a rate cell as a number: an empty cell counts as 0
N(v) == Coerce(v).n

\* the product of two fixed-point numbers
Times(x, y) == (x * y) \div Scale

Stadtmobil == SummaryVal(8)
GrandTotal == SummaryVal(10)

(***************************************************************************)
(* C4: the shared-vehicle category is the lump sum whenever the lump sum   *)
(* is > 0, whatever the car count, base rate, distance and per-km rate,    *)
(* and is car_count * base_rate + total_distance * per_distance_rate when  *)
(* the lump sum is 0; (0, 1, 150, 100, 0.35) gives 185 and a lump sum of   *)
(* 500 gives 500.                                                          *)
(***************************************************************************)
C4_SharedVehicleCost ==
    Opened =>
        /\ N(RateVal(7)) > 0 => Stadtmobil = RateVal(7)
        /\ N(RateVal(7)) = 0 =>
              Stadtmobil = Num(Times(N(RateVal(4)), N(RateVal(3))) +
                               Times(N(RateVal(5)), N(RateVal(6))))
        /\ ( /\ RateVal(7) = Whole(0) /\ RateVal(4) = Whole(1) /\ RateVal(3) = Whole(150)
             /\ RateVal(5) = Whole(100) /\ RateVal(6) = Num(35) ) => Stadtmobil = Whole(185)
        /\ RateVal(7) = Whole(500) => Stadtmobil = Whole(500)

\* a lump sum of 500 overrides two cars at 200 over 250 km at 0.50
C4_Witness ==
    /\ Opened
    /\ RateVal(7) = Whole(500) /\ RateVal(4) = Whole(2) /\ RateVal(3) = Whole(200)
    /\ RateVal(5) = Whole(250) /\ RateVal(6) = Num(50)
    /\ Stadtmobil = Whole(500)

(***************************************************************************)
(* Structure of the written formulas.                                      *)
(***************************************************************************)
RECURSIVE NamesIn(_)
\* the defined names a formula mentions
NamesIn(f) ==
    CASE f.op = "name" -> {f.name}
      [] f.op \in {"mul", "add", "gt", "eq", "iferror"} -> NamesIn(f.a) \cup NamesIn(f.b)
      [] f.op = "if" -> NamesIn(f.c) \cup NamesIn(f.a) \cup NamesIn(f.b)
      [] f.op = "sumifs" -> NamesIn(f.c1) \cup NamesIn(f.c2)
      [] OTHER -> {}

FormulaCells == {k \in DOMAIN cells : cells[k].kind = "fml"}

VehicleNames ==
    {"STADTMOBIL_BASE", "STADTMOBIL_CAR_NUMBER", "TOTAL_KM", "STADTMOBIL_PER_KM",
     "STADTMOBIL_LUMPSUM"}

RECURSIVE ColumnSum(_, _, _, _)
\* the numbers of rows first..last of a column, added up
ColumnSum(sheet, col, first, last) ==
    IF first > last THEN 0
    ELSE N(ValueOf(sheet, col, last)) + ColumnSum(sheet, col, first, last - 1)

IsNum(v) == v.t = "num"

C3_NoErrorValue ==
    Opened => \A k \in FormulaCells : ValueOf(k[1], k[2], k[3]).t # "err"

(***************************************************************************)
(* C10: in Staff & Participants every derived column sits under the header *)
(* that names it: the wage formula is in the column headed "Wages total    *)
(* (EUR)", the subtotal formula in the column headed "Participant subtotal *)
(* (EUR)", and every column holding formulas has a header.                 *)
(***************************************************************************)
HeaderColumns(text) == {c \in 1..16 : ValueOf(StaffT, c, 1) = Str(text)}

C10_FormulasUnderTheirHeaders ==
    Opened =>
        /\ \A row \in 2..StaffLast :
              /\ \E c \in HeaderColumns("Wages total (EUR)") :
                    CellAt(cells, StaffT, c, row) = Fml(WageFormula(row))
              /\ \E c \in HeaderColumns("Participant subtotal (EUR)") :
                    CellAt(cells, StaffT, c, row) = Fml(SubtotalFormula(row))
        /\ \A k \in FormulaCells : k[1] = StaffT => ValueOf(StaffT, k[2], 1).t = "str"

(***************************************************************************)
(* C1: the Hours cell of every participant row is the sum of the Hours of  *)
(* exactly those Hours Log entries whose First name and Last name equal    *)
(* the row's first and last name, character for character.                 *)
(***************************************************************************)
RECURSIVE ExactHours(_, _)
\* the hours of log rows 2..i logged under the names of participant row `row`
ExactHours(row, i) ==
    IF i < 2 THEN 0
    ELSE ExactHours(row, i - 1) +
         (IF /\ HoursVal(3, i) = StaffVal(1, row)
             /\ HoursVal(4, i) = StaffVal(2, row)
          THEN N(HoursVal(6, i)) ELSE 0)

C1_HoursAreExactNameSum ==
    Opened => \A row \in 2..StaffLast : StaffVal(12, row) = Num(ExactHours(row, HoursLast))

(***************************************************************************)
(* C2: an Hours Log entry whose first name + last name pair is that of no  *)
(* participant row adds to no row's hours and to no row's wages, whatever  *)
(* its task and role fields hold: with the entry taken out of the log      *)
(* every participant row shows the same hours and the same wages.          *)
(***************************************************************************)
Unmatched(i) ==
    \A row \in 2..StaffLast :
        ~(HoursVal(3, i) = StaffVal(1, row) /\ HoursVal(4, i) = StaffVal(2, row))

\* the workbook with row i of the Hours Log emptied
WithoutEntry(i) ==
    [k \in {x \in DOMAIN cells : ~(x[1] = HoursT /\ x[3] = i)} |-> cells[k]]

C2_UnmatchedEntryAddsNothing ==
    Opened =>
        \A i \in 2..HoursLast :
            Unmatched(i) =>
                \A row \in 2..StaffLast :
                    /\ ValueIn(WithoutEntry(i), StaffT, 12, row) = StaffVal(12, row)
                    /\ ValueIn(WithoutEntry(i), StaffT, 15, row) = StaffVal(15, row)

(***************************************************************************)
(* C7: after any sequence of add_defined_name calls the workbook holds     *)
(* exactly one definition per name that was ever defined, pointing to the  *)
(* target of the latest call for that name; no call raises, and no name is *)
(* held that was never defined.                                            *)
(***************************************************************************)
C7_LastDefinitionWins ==
    /\ raised = FALSE
    /\ pc # "aborted"
    /\ {defined_names[i].name : i \in 1..Len(defined_names)} = DOMAIN last_target
    /\ \A name \in DOMAIN last_target :
          /\ Cardinality(NameIdx(defined_names, name)) = 1
          /\ \A i \in NameIdx(defined_names, name) :
                defined_names[i].attr_text = last_target[name]

\* PER_DIEM, defined by the build, was pointed at a cell of the Summary afterwards
C7_Witness ==
    /\ nm_idx > 1
    /\ "PER_DIEM" \in DOMAIN last_target
    /\ last_target["PER_DIEM"] = Target(SummaryT, A1(2, 9))
    /\ \E i \in 1..Len(defined_names) :
          defined_names[i] = DefinedName("PER_DIEM", Target(SummaryT, A1(2, 9)))

(***************************************************************************)
(* C8: the per-diem total of a participant row is 0 when the role is       *)
(* "Student (unpaid)", whatever the day counts, and is otherwise           *)
(* full_days * rate + partial_days * rate with the rate read from the cell *)
(* PER_DIEM names; rate 24, 2 full days and 1 partial day give 72.         *)
(***************************************************************************)
C8_PerDiemTotal ==
    Opened =>
        \A row \in 2..StaffLast :
            /\ StaffVal(3, row) = Str("Student (unpaid)") => StaffVal(8, row) = Num(0)
            /\ StaffVal(3, row) # Str("Student (unpaid)") =>
                  StaffVal(8, row) = Num(Times(N(StaffVal(6, row)), N(RateVal(2))) +
                                         Times(N(StaffVal(7, row)), N(RateVal(2))))
            /\ ( /\ StaffVal(3, row) # Str("Student (unpaid)")
                 /\ RateVal(2) = Whole(24)
                 /\ StaffVal(6, row) = Whole(2) /\ StaffVal(7, row) = Whole(1) ) =>
                  StaffVal(8, row) = Whole(72)

\* an unpaid student with day counts beside a paid role with the same counts
C8_Witness ==
    /\ Opened
    /\ StaffVal(3, 2) = Str("Student (unpaid)")
    /\ StaffVal(6, 2) = Whole(2) /\ StaffVal(7, 2) = Whole(1)
    /\ StaffVal(8, 2) = Num(0)
    /\ StaffVal(3, 3) = Str("WiMi")
    /\ StaffVal(6, 3) = Whole(2) /\ StaffVal(7, 3) = Whole(1)
    /\ RateVal(2) = Whole(30)
    /\ StaffVal(8, 3) = Whole(90)

(***************************************************************************)
(* C9: a participant row whose role is not "Hiwi (student assistant)", a   *)
(* blank role included, has hourly rate 0 and wage total 0 whatever hours  *)
(* are summed for it; a row with that role takes the rate of the cell      *)
(* HIWI_RATE names, and its wage total is hours * hourly rate.             *)
(***************************************************************************)
C9_WagesOnlyForHourlyPaid ==
    Opened =>
        \A row \in 2..StaffLast :
            /\ StaffVal(3, row) # Str("Hiwi (student assistant)") =>
                  StaffVal(13, row) = Num(0) /\ StaffVal(15, row) = Num(0)
            /\ StaffVal(3, row) = Str("Hiwi (student assistant)") =>
                  /\ StaffVal(13, row) = RateVal(9)
                  /\ StaffVal(15, row) = Num(Times(N(StaffVal(12, row)), N(RateVal(9))))

\* hours are summed for a WiMi row, which earns nothing, and for a Hiwi row
C9_Witness ==
    /\ Opened
    /\ StaffVal(3, 2) = Str("WiMi")
    /\ StaffVal(12, 2) = Whole(4)
    /\ StaffVal(15, 2) = Num(0)
    /\ StaffVal(3, 3) = Str("Hiwi (student assistant)")
    /\ RateVal(9) = Whole(25)
    /\ StaffVal(15, 3) = Whole(100)

====
